---- MODULE Spec2Model ----
(***************************************************************************)
(* Batch assembly (BiEncoder.create_biencoder_input), span selection       *)
(* (_select_span_with_token) and the contrastive loss (BiEncoderNllLoss /  *)
(* BiEncoderEntLoss) of src/dpr/models/biencoder.py, and the entity-       *)
(* restricted retrieval of src/drl.py.                                     *)
(*                                                                         *)
(* Flattened batch indices are 0-based as in the code; TLA+ sequences are  *)
(* 1-based, so the passage at flattened index k is ctx_tensors[k + 1].     *)
(***************************************************************************)
EXTENDS Integers, Sequences, FiniteSets, TLC

\* ------------------------------------------------------------------ bounds
MaxSamples == 2
MaxPassages == 3
MaxNum == 2
MaxRndStart == 2
MaxLength == 16
MaxVal == 1
MaxScale == 2

\* ------------------------------------------------------- tokenizer's ids
cls_token_id == 101
sep_token_id == 102
pad_id == 0
start_ent_id == 7
qst_id == 8

\* tensorizer.max_length, the configured sequence length.
VARIABLE max_length

NONE == "None"
START_ENT == "[START_ENT]"
QueryTokens == {NONE, "", "[QST]", START_ENT}

\* Python truthiness of the query_token argument (None and "" are falsy).
Truthy(query_token) == query_token # NONE /\ query_token # ""

\* ------------------------------------------------------------- sequences
Min(a, b) == IF a <= b THEN a ELSE b
Max(a, b) == IF a >= b THEN a ELSE b

\* Python's s[0:n] for n >= 0.
Take(s, n) == SubSeq(s, 1, Min(n, Len(s)))

\* Python's s[k:] for 0 <= k.
Drop(s, k) == SubSeq(s, Min(k, Len(s)) + 1, Len(s))

Range(s) == {s[i] : i \in DOMAIN s}

RECURSIVE SumSeq(_)
SumSeq(s) == IF s = <<>> THEN 0 ELSE s[1] + SumSeq(Tail(s))

\* Every ordering random.shuffle can leave a list in.
Shufflings(s) ==
    {[i \in 1..Len(s) |-> s[p[i]]] :
        p \in {q \in [1..Len(s) -> 1..Len(s)] : \A i, j \in 1..Len(s) : q[i] = q[j] => i = j}}

\* --------------------------------------------------------------- passages
\* A passage is identified by (sample, pool, position): pools of one sample and
\* of different samples hold different passages.
Passage(s, pool, k) == s * 100 + pool * 10 + k
PositivePool(s, n) == [k \in 1..n |-> Passage(s, 1, k)]
NegativePool(s, n) == [k \in 1..n |-> Passage(s, 2, k)]
HardNegativePool(s, n) == [k \in 1..n |-> Passage(s, 3, k)]

\* Passages at an even position of their pool carry a title.
HasTitle(ctx) == ctx % 2 = 0

\* tensorizer.text_to_tensor(ctx.text, title=..., entities=..., entity_spans=...)
\* for a passage: token ids, entity ids, entity position ids.
CtxTitle(ctx, insert_title) == IF insert_title /\ HasTitle(ctx) THEN ctx ELSE 0
CtxTokenIds(ctx, insert_title) == <<ctx, CtxTitle(ctx, insert_title)>>
CtxEntityIds(ctx) == <<ctx, ctx + 1>>
CtxEntityPositionIds(ctx) == <<ctx, ctx + 2>>

\* ----------------------------------------------------------------- queries
\* A query text is its number of word tokens and the position (1-based, among
\* the words) of the marker "[START_ENT]", 0 when the text holds no marker.
Words(text) ==
    [p \in 1..text.words |-> IF p = text.marker THEN start_ent_id ELSE 1000 + p]

PrefixIds(prefix) == IF prefix = "[QST]" THEN <<qst_id>> ELSE <<>>

\* right-pad / truncate to max_len
pad_to_len(seq, pad, max_len) ==
    IF Len(seq) > max_len THEN Take(seq, max_len)
    ELSE seq \o [i \in 1..(max_len - Len(seq)) |-> pad]

\* tensorizer.text_to_tensor(text, apply_max_len=...): [CLS] words [SEP],
\* cut and padded to max_length unless apply_max_len is False.
text_to_tensor(prefix, text, apply_max_len) ==
    LET full == <<cls_token_id>> \o PrefixIds(prefix) \o Words(text) \o <<sep_token_id>>
    IN  IF ~apply_max_len THEN full
        ELSE IF Len(full) >= max_length
             THEN [Take(full, max_length) EXCEPT ![max_length] = sep_token_id]
             ELSE pad_to_len(full, pad_id, max_length)

QueryEntityIds(text) == <<text.words, text.marker>>
QueryEntityPositionIds(text) == <<text.marker, text.words>>

\* ------------------------------------------------------------ rnd (line 48)
\* rnd = random.Random(0): the first values of rnd.random(), in thousandths.
RndSeq == <<844, 757, 420, 258, 511, 404, 783, 303, 476, 583, 908, 504>>

\* int(x) of Python for the quotient a / b, b > 0: truncation toward zero.
TruncDiv(a, b) == IF a >= 0 THEN a \div b ELSE -((-a) \div b)

\* Python's s[k:], where a negative k counts from the end.
SliceFrom(s, k) == IF k >= 0 THEN Drop(s, k) ELSE Drop(s, Max(Len(s) + k, 0))

\* Position (0-based) of the first occurrence of id in tensor; -1 when absent.
FirstIndex(tensor, id) ==
    IF id \in Range(tensor)
    THEN (CHOOSE i \in DOMAIN tensor : tensor[i] = id /\ \A j \in 1..(i - 1) : tensor[j] # id) - 1
    ELSE -1

\* left_shit after the jitter (lines 450-452), r = rnd.random() in thousandths.
LeftShift(r) ==
    LET left_shit == max_length \div 2
        rnd_shift == TruncDiv((r - 500) * left_shit, 2000)
    IN  left_shit + rnd_shift

\* A faulty Rewindow: no start-of-sequence id is put before the window.
RewindowWithoutCls(query_tensor_full, start_pos, r) ==
    LET cut == SliceFrom(query_tensor_full, start_pos - LeftShift(r))
        padded == pad_to_len(cut, pad_id, max_length)
    IN  [padded EXCEPT ![Len(padded)] = sep_token_id]

\* Lines 454-462: the window cut from the full tensor at the marker.
Rewindow(query_tensor_full, start_pos, r) ==
    LET cut == SliceFrom(query_tensor_full, start_pos - LeftShift(r))
        with_cls == IF cut[1] # cls_token_id THEN <<cls_token_id>> \o cut ELSE cut
        padded == pad_to_len(with_cls, pad_id, max_length)
    IN  [padded EXCEPT ![Len(padded)] = sep_token_id]

\* A faulty select_span_with_token: a text without marker gets its truncated
\* tensor back.
SelectSpanWithoutCheck(text, r) ==
    [status |-> "ok", tensor |-> text_to_tensor(NONE, text, TRUE), drew |-> 0,
     message |-> <<>>]

\* _select_span_with_token(text, tensorizer, token_str): the returned tensor,
\* whether rnd was drawn from, whether the call raised and, if it did, what the
\* error's message was formatted from (the tensor in line 465, the text in 468).
select_span_with_token(text, r) ==
    LET query_tensor == text_to_tensor(NONE, text, TRUE)
        query_tensor_full == text_to_tensor(NONE, text, FALSE)
        start_pos == FirstIndex(query_tensor_full, start_ent_id)
    IN  IF start_ent_id \in Range(query_tensor)
        THEN [status |-> "ok", tensor |-> query_tensor, drew |-> 0, message |-> <<>>]
        ELSE IF start_pos >= 0
             THEN LET t == Rewindow(query_tensor_full, start_pos, r)
                  IN  IF start_ent_id \in Range(t)
                      THEN [status |-> "ok", tensor |-> t, drew |-> 1, message |-> <<>>]
                      ELSE [status |-> "AssertionError", tensor |-> <<>>, drew |-> 1,
                            message |-> <<"query_tensor=", t>>]
             ELSE [status |-> "RuntimeError", tensor |-> <<>>, drew |-> 0,
                   message |-> <<"[START_ENT] toke not found for Entity Linking sample query=",
                                 text>>]

\* ------------------------------------------------------------ similarity
\* A matrix is a sequence of rows; a vector batch n x D is a matrix.
Rows(M) == Len(M)
Cols(M) == IF Len(M) = 0 THEN 0 ELSE Len(M[1])

\* torch.transpose(M, 0, 1)
Transpose(M) == [d \in 1..Cols(M) |-> [j \in 1..Rows(M) |-> M[j][d]]]

\* torch.matmul(A, B) of an n x D and a D x m matrix.
MatMul(A, B) ==
    [i \in 1..Rows(A) |-> [j \in 1..Cols(B) |->
        SumSeq([d \in 1..Cols(A) |-> A[i][d] * B[d][j]])]]

\* Lines 51-60.
dot_product_scores(q_vectors, ctx_vectors) == MatMul(q_vectors, Transpose(ctx_vectors))

\* The + of two tensors of one shape.
MatAdd(A, B) == [i \in 1..Rows(A) |-> [j \in 1..Cols(A) |-> A[i][j] + B[i][j]]]

\* BiEncoderNllLoss.get_scores, lines 380-383.
NllGetScores(q_vector, ctx_vectors) == dot_product_scores(q_vector, ctx_vectors)

\* A faulty EntGetScores: the entity term is left out.
EntGetScoresWithoutEntities(q_vector, ctx_vectors, q_ent_vector, ctx_ent_vectors) ==
    dot_product_scores(q_vector, ctx_vectors)

\* BiEncoderEntLoss.get_scores, lines 429-432.
EntGetScores(q_vector, ctx_vectors, q_ent_vector, ctx_ent_vectors) ==
    MatAdd(dot_product_scores(q_vector, ctx_vectors),
           dot_product_scores(q_ent_vector, ctx_ent_vectors))

\* scores.view(q_num, -1), lines 360-362: the elements in row-major order, cut
\* again into q_num rows.
View(M, q_num) ==
    LET flat == [k \in 1..(Rows(M) * Cols(M)) |->
                    M[((k - 1) \div Cols(M)) + 1][((k - 1) % Cols(M)) + 1]]
        width == Len(flat) \div q_num
    IN  [i \in 1..q_num |-> [j \in 1..width |-> flat[(i - 1) * width + j]]]

\* ------------------------------------------------- exact log-sum-exp values
\* A polynomial in e with natural coefficients is the sequence of its
\* coefficients, p[d + 1] that of e^d. As e is transcendental, two such
\* polynomials have the same value only if they are the same sequence.
SetMin(S) == CHOOSE x \in S : \A y \in S : x <= y
SetMax(S) == CHOOSE x \in S : \A y \in S : x >= y

\* sum_k e^(row[k] - min(row))
ExpSum(row) ==
    LET lo == SetMin(Range(row))
        hi == SetMax(Range(row))
    IN  [d \in 1..(hi - lo + 1) |-> Cardinality({k \in DOMAIN row : row[k] - lo = d - 1})]

PolyMul(p, q) ==
    [d \in 1..(Len(p) + Len(q) - 1) |->
        SumSeq([a \in 1..Len(p) |-> IF d - a + 1 \in 1..Len(q) THEN p[a] * q[d - a + 1] ELSE 0])]

RECURSIVE PolyPow(_, _)
PolyPow(p, c) == IF c = 0 THEN <<1>> ELSE PolyMul(p, PolyPow(p, c - 1))

\* A faulty log_softmax: the softmax runs over the queries (dim=0), not over
\* the passages.
LogSoftmaxOverQueries(scores) ==
    [i \in 1..Rows(scores) |-> [j \in 1..Cols(scores) |->
        [int |-> scores[i][j] - SetMin({scores[r][j] : r \in 1..Rows(scores)}),
         lse |-> ExpSum([r \in 1..Rows(scores) |-> scores[r][j]])]]]

\* F.log_softmax(scores, dim=1), line 364. The entry [int |-> a, lse |-> p]
\* stands for the real number a - log p(e): scores[i][j] - log sum_k e^scores[i][k].
log_softmax(scores) ==
    [i \in 1..Rows(scores) |-> [j \in 1..Cols(scores) |->
        [int |-> scores[i][j] - SetMin(Range(scores[i])), lse |-> ExpSum(scores[i])]]]

RECURSIVE SumInt(_, _, _)
SumInt(softmax_scores, target, n) ==
    IF n = 0 THEN 0
    ELSE softmax_scores[n][target[n] + 1].int + SumInt(softmax_scores, target, n - 1)

RECURSIVE ProdLse(_, _, _)
ProdLse(softmax_scores, target, n) ==
    IF n = 0 THEN <<1>>
    ELSE PolyMul(softmax_scores[n][target[n] + 1].lse, ProdLse(softmax_scores, target, n - 1))

\* F.nll_loss(softmax_scores, target, reduction="mean"), lines 366-370. The loss
\* [k |-> a, q |-> p, n |-> n] stands for the real number (a + log p(e)) / n.
nll_loss(softmax_scores, target) ==
    [k |-> -SumInt(softmax_scores, target, Len(target)),
     q |-> ProdLse(softmax_scores, target, Len(target)),
     n |-> Len(target)]

\* loss.mul_(loss_scale), for a whole-numbered scale.
Mul(loss, c) == [k |-> loss.k * c, q |-> PolyPow(loss.q, c), n |-> loss.n]

\* A faulty IsArgMax: the index of a smallest entry.
IsArgMin(row, j) == \A k \in DOMAIN row : row[k].int >= row[j + 1].int

\* torch.max(softmax_scores, 1), line 372: for every row an index (0-based) of a
\* largest entry; which one among equal entries is left to the build.
IsArgMax(row, j) == \A k \in DOMAIN row : row[k].int <= row[j + 1].int
ArgMaxes(softmax_scores) ==
    {f \in [1..Rows(softmax_scores) -> 0..(Cols(softmax_scores) - 1)] :
        \A i \in 1..Rows(softmax_scores) : IsArgMax(softmax_scores[i], f[i])}

\* (max_idxs == positive_idx_per_question).sum(), line 373.
CountCorrect(max_idxs, positive_idx_per_question) ==
    Cardinality({i \in DOMAIN max_idxs : max_idxs[i] = positive_idx_per_question[i]})

\* A loss_scale argument: None, or a number. Python's `if loss_scale:` (line 375)
\* takes None and 0 for false.
NoScale == [given |-> FALSE, value |-> 0]
ScaleTruthy(loss_scale) == loss_scale.given /\ loss_scale.value # 0

\* Lines 375-378.
ScaleLoss(loss, loss_scale) ==
    IF ScaleTruthy(loss_scale) THEN Mul(loss, loss_scale.value) ELSE loss

\* A hard_negative_idx_per_question argument: None (the default), or a list of
\* index lists, one per query.
NoHardNegatives == [given |-> FALSE, value |-> <<>>]
HardNegativeArgs(n, m) ==
    {NoHardNegatives} \cup
    {[given |-> TRUE, value |-> [i \in 1..n |-> h]] : h \in {<<>>, <<m - 1>>}}


\* ------------------------------------------------------------------- state
VARIABLES
    samples,                        \* the samples, as the call's shuffles leave them
    samples0,                       \* the samples as given to the first call
    args,                           \* the call's other arguments
    idx,                            \* samples processed by the loop of line 218
    pc,                             \* "loop", "done" (returned) or "error" (raised)
    question_tensors,
    question_entity_tensors,
    question_entity_position_ids,
    ctx_tensors,
    ctx_entity_tensors,
    ctxs_entity_position_ids,
    positive_ctx_indices,
    hard_neg_ctx_indices,
    locals,                         \* per processed sample: the loop body's locals
    rnd_pos,                        \* values drawn so far from rnd
    random_calls,                   \* calls of np.random.choice and random.shuffle
    batch,                          \* the returned BiEncoderBatch
    call,                           \* 1 during the first call, 2 during the second
    prev,                           \* what the first call gathered and returned
    loss_class,                     \* "BiEncoderNllLoss" or "BiEncoderEntLoss"
    q_vectors,
    ctx_vectors,
    q_ent_vectors,
    ctx_ent_vectors,
    positive_idx_per_question,
    hard_negative_idx_per_question,
    loss_scale,
    lpc,                            \* "idle", "call" (calc not yet run), "scored", "done"
    scores,
    softmax_scores,
    loss,                           \* the loss of lines 366-370, before scaling
    max_idxs,
    correct_predictions_count,
    returned_loss,                  \* the loss calc returns
    prev_calc,                      \* what an earlier call of calc was given and returned
    span_text,                      \* the text _select_span_with_token is called on
    span_rnd,                       \* what rnd.random() gives that call, in thousandths
    query_span,                     \* the outcome of that call
    spc,                            \* "idle", "call", "returned" or "raised"
    qa_src,                         \* drl.py: the QA samples, entities and encoded query
    all_passages,                   \* drl.py: the (id, passage) pairs of the context source
    n_docs,                         \* cfg.n_docs
    question_entities,              \* entities of the questions kept by lines 73-79
    questions_tensor,               \* their vectors
    passages_by_title,              \* the title cache
    relevant_passages,              \* per question, what find_relevant_passages gave
    top_results_and_scores,
    dpc                             \* "idle", "filter", "cache", "retrieve" or "done"

asm_vars ==
    <<samples, samples0, args, idx, pc, question_tensors, question_entity_tensors,
      question_entity_position_ids, ctx_tensors, ctx_entity_tensors,
      ctxs_entity_position_ids, positive_ctx_indices, hard_neg_ctx_indices, locals,
      rnd_pos, random_calls, batch, call, prev>>

loss_vars ==
    <<loss_class, q_vectors, ctx_vectors, q_ent_vectors, ctx_ent_vectors,
      positive_idx_per_question, hard_negative_idx_per_question, loss_scale, lpc,
      scores, softmax_scores, loss, max_idxs, correct_predictions_count, returned_loss,
      prev_calc>>

span_vars == <<max_length, span_text, span_rnd, query_span, spc>>

drl_vars ==
    <<qa_src, all_passages, n_docs, question_entities, questions_tensor, passages_by_title,
      relevant_passages, top_results_and_scores, dpc>>

vars == <<asm_vars, loss_vars, span_vars, drl_vars>>

\* ------------------------------------------- create_biencoder_input, per sample
\* A faulty SelectPositive: the positive is drawn at random whenever
\* shuffle_positives is set, whatever shuffle is.
SelectPositiveIgnoringShuffle(positive_passages, choice, shuffle, shuffle_positives) ==
    IF shuffle_positives THEN positive_passages[choice] ELSE positive_passages[1]

\* A faulty SelectPositive: the positive is drawn at random whenever shuffle is
\* set, whatever shuffle_positives is.
SelectPositiveIgnoringShufflePositives(positive_passages, choice, shuffle, shuffle_positives) ==
    IF shuffle THEN positive_passages[choice] ELSE positive_passages[1]

\* Lines 222-226: the index np.random.choice returned is `choice` (1-based).
SelectPositive(positive_passages, choice, shuffle, shuffle_positives) ==
    IF shuffle /\ shuffle_positives
    THEN positive_passages[choice]
    ELSE positive_passages[1]

\* A faulty ShuffleOutcomes: the pools are shuffled whatever shuffle is.
ShuffleAlways(pool, shuffle) == Shufflings(pool)

\* Lines 233-235: the orders random.shuffle(pool) can leave the pool in.
ShuffleOutcomes(pool, shuffle) == IF shuffle THEN Shufflings(pool) ELSE {pool}

\* Calls of a random source made by lines 222-235.
RandomDraws(shuffle, shuffle_positives) ==
    (IF shuffle /\ shuffle_positives THEN 1 ELSE 0) + (IF shuffle THEN 2 ELSE 0)

\* A faulty HardNegFallback: no backfill from the other-negative pool.
NoFallback(hard_neg_ctxs, neg_ctxs, hard_neg_fallback, num_hard_negatives) == hard_neg_ctxs

\* Lines 237-238.
HardNegFallback(hard_neg_ctxs, neg_ctxs, hard_neg_fallback, num_hard_negatives) ==
    IF hard_neg_fallback /\ Len(hard_neg_ctxs) = 0
    THEN Take(neg_ctxs, num_hard_negatives)
    ELSE hard_neg_ctxs

\* A faulty TruncateHard: the hard negatives are not cut to num_hard_negatives.
KeepAllHard(hard_neg_ctxs, num_hard_negatives) == hard_neg_ctxs

\* Lines 240-241.
TruncateOther(neg_ctxs, num_other_negatives) == Take(neg_ctxs, num_other_negatives)
TruncateHard(hard_neg_ctxs, num_hard_negatives) == Take(hard_neg_ctxs, num_hard_negatives)

\* A faulty AllCtxs: the hard negatives are placed before the other negatives.
HardBeforeOther(positive_ctx, neg_ctxs, hard_neg_ctxs) ==
    <<positive_ctx>> \o hard_neg_ctxs \o neg_ctxs

\* Line 243.
AllCtxs(positive_ctx, neg_ctxs, hard_neg_ctxs) == <<positive_ctx>> \o neg_ctxs \o hard_neg_ctxs

\* A faulty HardNegIndices: the indices are not offset by the passages already
\* in the batch.
HardNegIndicesWithoutOffset(current_ctxs_len, hard_neg_ctxs) ==
    [i \in 1..Len(hard_neg_ctxs) |-> i]

\* Lines 244-245 and 270-278: range(current + start, current + end).
HardNegIndices(current_ctxs_len, hard_neg_ctxs) ==
    LET hard_negatives_start_idx == 1
        hard_negatives_end_idx == 1 + Len(hard_neg_ctxs)
    IN  [i \in 1..(hard_negatives_end_idx - hard_negatives_start_idx) |->
            current_ctxs_len + hard_negatives_start_idx + (i - 1)]

\* A faulty PositiveIndex: the index is taken after the sample's positive.
PositiveIndexOffByOne(current_ctxs_len) == current_ctxs_len + 1

\* Line 269.
PositiveIndex(current_ctxs_len) == current_ctxs_len

\* Lines 280-294: what the sample's query appends to the three question lists,
\* whether it raised, how many values it drew from rnd, and the call that made
\* the token tensor: callee, the token joined before the text (None when the
\* raw text is passed) and the text.
EncodeQuery(query, query_token, r) ==
    IF Truthy(query_token)
    THEN IF query_token = START_ENT
         THEN LET span == select_span_with_token(query, r)
              IN  [status |-> span.status, drew |-> span.drew,
                   tokens |-> IF span.status = "ok" THEN <<span.tensor>> ELSE <<>>,
                   entities |-> <<>>, positions |-> <<>>,
                   called |-> [callee |-> "_select_span_with_token", joined |-> NONE,
                               text |-> query]]
         ELSE [status |-> "ok", drew |-> 0,
               tokens |-> <<text_to_tensor(query_token, query, TRUE)>>,
               entities |-> <<QueryEntityIds(query)>>,
               positions |-> <<QueryEntityPositionIds(query)>>,
               called |-> [callee |-> "text_to_tensor", joined |-> query_token,
                           text |-> query]]
    ELSE [status |-> "ok", drew |-> 0,
          tokens |-> <<text_to_tensor(NONE, query, TRUE)>>,
          entities |-> <<QueryEntityIds(query)>>,
          positions |-> <<QueryEntityPositionIds(query)>>,
          called |-> [callee |-> "text_to_tensor", joined |-> NONE, text |-> query]]

\* A faulty PoolsAfter: truncation acts on the sample's own lists.
PoolsTruncatedInPlace(sample, negs, hards) ==
    [sample EXCEPT !.negative_passages = Take(negs, args.num_other_negatives),
                   !.hard_negative_passages = Take(hards, args.num_hard_negatives)]

\* Lines 228-241, as seen from the sample: neg_ctxs and hard_neg_ctxs alias the
\* sample's lists while random.shuffle reorders them in place (lines 234-235);
\* the slices of lines 238, 240 and 241 are new lists bound to the locals, and
\* the positive pool is only read.
PoolsAfter(sample, negs, hards) ==
    [sample EXCEPT !.negative_passages = negs, !.hard_negative_passages = hards]

\* One iteration of the loop of line 218 on samples[idx + 1], with the outcomes
\* of its random draws; raised is "ok" or the error the query encoding raised.
LoopBody(choice, negs, hards) ==
    LET sample == samples[idx + 1]
        positive_ctx == SelectPositive(sample.positive_passages, choice,
                                       args.shuffle, args.shuffle_positives)
        hard_pool == HardNegFallback(hards, negs, args.hard_neg_fallback,
                                     args.num_hard_negatives)
        neg_ctxs == TruncateOther(negs, args.num_other_negatives)
        hard_neg_ctxs == TruncateHard(hard_pool, args.num_hard_negatives)
        all_ctxs == AllCtxs(positive_ctx, neg_ctxs, hard_neg_ctxs)
        current_ctxs_len == Len(ctx_tensors)
        q == EncodeQuery(sample.query, args.query_token, RndSeq[rnd_pos + 1])
    IN  /\ samples' = [samples EXCEPT ![idx + 1] = PoolsAfter(sample, negs, hards)]
        /\ ctx_tensors' = ctx_tensors \o
               [i \in 1..Len(all_ctxs) |-> CtxTokenIds(all_ctxs[i], args.insert_title)]
        /\ ctx_entity_tensors' = ctx_entity_tensors \o
               [i \in 1..Len(all_ctxs) |-> CtxEntityIds(all_ctxs[i])]
        /\ ctxs_entity_position_ids' =
               ctxs_entity_position_ids \o
               [i \in 1..Len(all_ctxs) |-> CtxEntityPositionIds(all_ctxs[i])]
        /\ positive_ctx_indices' = Append(positive_ctx_indices, PositiveIndex(current_ctxs_len))
        /\ hard_neg_ctx_indices' =
               Append(hard_neg_ctx_indices, HardNegIndices(current_ctxs_len, hard_neg_ctxs))
        /\ question_tensors' = question_tensors \o q.tokens
        /\ question_entity_tensors' = question_entity_tensors \o q.entities
        /\ question_entity_position_ids' = question_entity_position_ids \o q.positions
        /\ locals' = Append(locals,
               [positive_ctx |-> positive_ctx, neg_pool |-> negs, hard_pool |-> hard_pool,
                neg_ctxs |-> neg_ctxs, hard_neg_ctxs |-> hard_neg_ctxs,
                all_ctxs |-> all_ctxs, current_ctxs_len |-> current_ctxs_len,
                rewindowed |-> q.drew = 1, called |-> q.called])
        /\ rnd_pos' = rnd_pos + q.drew
        /\ random_calls' = random_calls + RandomDraws(args.shuffle, args.shuffle_positives)
        /\ IF q.status = "ok"
           THEN idx' = idx + 1 /\ pc' = "loop"
           ELSE idx' = idx /\ pc' = q.status

\* ------------------------------------------------------------------ actions
\* Lines 218-294 for the next sample. A query whose marker is missing raises in
\* line 468 (or 465), after the passages of the sample were appended.
ProcessSample ==
    /\ pc = "loop"
    /\ idx < Len(samples)
    /\ Len(samples[idx + 1].positive_passages) > 0
    /\ \E choice \in 1..Len(samples[idx + 1].positive_passages) :
       \E negs \in ShuffleOutcomes(samples[idx + 1].negative_passages, args.shuffle) :
       \E hards \in ShuffleOutcomes(samples[idx + 1].hard_negative_passages, args.shuffle) :
           LoopBody(choice, negs, hards)
    /\ UNCHANGED <<samples0, args, batch, call, prev>>
    /\ UNCHANGED loss_vars
    /\ UNCHANGED span_vars
    /\ UNCHANGED drl_vars

\* A faulty NoPositive: a sample without positives is passed over.
NoPositiveSkipsSample ==
    /\ pc = "loop"
    /\ idx < Len(samples)
    /\ Len(samples[idx + 1].positive_passages) = 0
    /\ idx' = idx + 1
    /\ UNCHANGED <<samples, samples0, args, pc, question_tensors, question_entity_tensors,
                   question_entity_position_ids, ctx_tensors, ctx_entity_tensors,
                   ctxs_entity_position_ids, positive_ctx_indices, hard_neg_ctx_indices,
                   locals, rnd_pos, random_calls, batch, call, prev>>
    /\ UNCHANGED loss_vars
    /\ UNCHANGED span_vars
    /\ UNCHANGED drl_vars

\* Lines 224 and 226 on an empty positive pool: np.random.choice(0) raises a
\* ValueError, [][0] an IndexError; nothing in the function catches either.
NoPositive ==
    /\ pc = "loop"
    /\ idx < Len(samples)
    /\ Len(samples[idx + 1].positive_passages) = 0
    /\ pc' = (IF args.shuffle /\ args.shuffle_positives THEN "ValueError" ELSE "IndexError")
    /\ UNCHANGED <<samples, samples0, args, idx, question_tensors, question_entity_tensors,
                   question_entity_position_ids, ctx_tensors, ctx_entity_tensors,
                   ctxs_entity_position_ids, positive_ctx_indices, hard_neg_ctx_indices,
                   locals, rnd_pos, random_calls, batch, call, prev>>
    /\ UNCHANGED loss_vars
    /\ UNCHANGED span_vars
    /\ UNCHANGED drl_vars

\* torch.cat raises on an empty list of tensors.
CanStack(tensors) == Len(tensors) > 0

\* Lines 314-328.
BiEncoderBatch ==
    [question_ids |-> question_tensors,
     question_entity_ids |-> question_entity_tensors,
     question_entity_position_ids |-> question_entity_position_ids,
     context_ids |-> ctx_tensors,
     ctx_entity_ids |-> ctx_entity_tensors,
     ctx_entity_position_ids |-> ctxs_entity_position_ids,
     is_positive |-> positive_ctx_indices,
     hard_negatives |-> hard_neg_ctx_indices,
     encoder_type |-> "question"]

\* Lines 296-328, once the loop is over.
Stack ==
    /\ pc = "loop"
    /\ idx = Len(samples)
    /\ IF /\ CanStack(ctx_tensors)
          /\ CanStack(ctx_entity_tensors)
          /\ CanStack(question_tensors)
          /\ CanStack(question_entity_tensors)
          /\ CanStack(question_entity_position_ids)
          /\ CanStack(ctxs_entity_position_ids)
       THEN pc' = "done" /\ batch' = BiEncoderBatch
       ELSE pc' = "RuntimeError" /\ batch' = batch
    /\ UNCHANGED <<samples, samples0, args, idx, question_tensors, question_entity_tensors,
                   question_entity_position_ids, ctx_tensors, ctx_entity_tensors,
                   ctxs_entity_position_ids, positive_ctx_indices, hard_neg_ctx_indices,
                   locals, rnd_pos, random_calls, call, prev>>
    /\ UNCHANGED loss_vars
    /\ UNCHANGED span_vars
    /\ UNCHANGED drl_vars

\* What a call leaves behind: the lists it gathered and the batch it returned.
Gathered ==
    [pc |-> pc, batch |-> batch,
     question_tensors |-> question_tensors,
     question_entity_tensors |-> question_entity_tensors,
     question_entity_position_ids |-> question_entity_position_ids,
     ctx_tensors |-> ctx_tensors,
     ctx_entity_tensors |-> ctx_entity_tensors,
     ctxs_entity_position_ids |-> ctxs_entity_position_ids,
     positive_ctx_indices |-> positive_ctx_indices,
     hard_neg_ctx_indices |-> hard_neg_ctx_indices,
     locals |-> locals]

NoBatch == [encoder_type |-> "none"]
NoCall == [pc |-> "none"]

\* A second call of create_biencoder_input with the same samples and arguments
\* (lines 209-216 start it from empty lists; rnd, at module level, goes on).
CallAgain ==
    /\ call = 1
    /\ pc # "loop"
    /\ prev' = Gathered
    /\ call' = 2
    /\ pc' = "loop"
    /\ idx' = 0
    /\ question_tensors' = <<>>
    /\ question_entity_tensors' = <<>>
    /\ question_entity_position_ids' = <<>>
    /\ ctx_tensors' = <<>>
    /\ ctx_entity_tensors' = <<>>
    /\ ctxs_entity_position_ids' = <<>>
    /\ positive_ctx_indices' = <<>>
    /\ hard_neg_ctx_indices' = <<>>
    /\ locals' = <<>>
    /\ random_calls' = 0
    /\ batch' = NoBatch
    /\ UNCHANGED <<samples, samples0, args, rnd_pos>>
    /\ UNCHANGED loss_vars
    /\ UNCHANGED span_vars
    /\ UNCHANGED drl_vars

\* ------------------------------------------------------------ initial states
\* The sizes of a sample's three pools.
Shapes ==
    {sh \in [pos : 0..MaxPassages, neg : 0..MaxPassages, hard : 0..MaxPassages] :
        sh.pos + sh.neg + sh.hard <= MaxPassages}

MkSample(s, sh, query) ==
    [positive_passages |-> PositivePool(s, sh.pos),
     negative_passages |-> NegativePool(s, sh.neg),
     hard_negative_passages |-> HardNegativePool(s, sh.hard),
     query |-> query]

RECURSIVE SumBy(_, _)
SumBy(f, n) == IF n = 0 THEN 0 ELSE f[n].pos + f[n].neg + f[n].hard + SumBy(f, n - 1)

ShapeLists ==
    UNION {{f \in [1..n -> Shapes] : SumBy(f, n) <= MaxPassages} : n \in 0..MaxSamples}

\* A short query that holds the marker, a long one whose marker lies beyond
\* max_length, and one without marker.
ShortQuery == [words |-> 3, marker |-> 2]
LongQuery == [words |-> MaxLength + 4, marker |-> MaxLength + 1]
PlainQuery == [words |-> 3, marker |-> 0]

Args ==
    [num_hard_negatives : 0..MaxNum, num_other_negatives : 0..MaxNum,
     shuffle : BOOLEAN, shuffle_positives : BOOLEAN, hard_neg_fallback : BOOLEAN,
     query_token : QueryTokens, insert_title : BOOLEAN]

InitCall ==
    /\ samples0 = samples
    /\ idx = 0
    /\ pc = "loop"
    /\ question_tensors = <<>>
    /\ question_entity_tensors = <<>>
    /\ question_entity_position_ids = <<>>
    /\ ctx_tensors = <<>>
    /\ ctx_entity_tensors = <<>>
    /\ ctxs_entity_position_ids = <<>>
    /\ positive_ctx_indices = <<>>
    /\ hard_neg_ctx_indices = <<>>
    /\ locals = <<>>
    /\ random_calls = 0
    /\ batch = NoBatch
    /\ call = 1
    /\ prev = NoCall

\* No earlier call of calc.
NoCalc ==
    [made |-> FALSE, hard_negative_idx_per_question |-> NoHardNegatives,
     softmax_scores |-> <<>>, max_idxs |-> <<>>, returned_loss |-> <<>>,
     correct_predictions_count |-> 0]

\* No loss computation is under way.
LossIdle ==
    /\ loss_class = "none"
    /\ q_vectors = <<>>
    /\ ctx_vectors = <<>>
    /\ q_ent_vectors = <<>>
    /\ ctx_ent_vectors = <<>>
    /\ positive_idx_per_question = <<>>
    /\ hard_negative_idx_per_question = NoHardNegatives
    /\ loss_scale = NoScale
    /\ prev_calc = NoCalc
    /\ lpc = "idle"
    /\ scores = <<>>
    /\ softmax_scores = <<>>
    /\ loss = <<>>
    /\ max_idxs = <<>>
    /\ correct_predictions_count = 0
    /\ returned_loss = <<>>

\* No call of _select_span_with_token of its own is under way; the tensorizer
\* is configured with the largest sequence length.
NoSpan == [status |-> "none"]

SpanIdle ==
    /\ max_length = MaxLength
    /\ span_text = PlainQuery
    /\ span_rnd = 0
    /\ query_span = NoSpan
    /\ spc = "idle"

\* No retrieval run of drl.py is under way.
DrlIdle ==
    /\ qa_src = <<>>
    /\ all_passages = <<>>
    /\ n_docs = 0
    /\ question_entities = <<>>
    /\ questions_tensor = <<>>
    /\ passages_by_title = <<>>
    /\ relevant_passages = <<>>
    /\ top_results_and_scores = <<>>
    /\ dpc = "idle"

\* One call of create_biencoder_input: every list of samples within the bounds,
\* every setting of the arguments (titles are inserted).
Init ==
    /\ \E f \in ShapeLists : samples = [s \in DOMAIN f |-> MkSample(s, f[s], ShortQuery)]
    /\ args \in {a \in Args : a.insert_title}
    /\ rnd_pos = 0
    /\ InitCall
    /\ LossIdle
    /\ SpanIdle
    /\ DrlIdle

Next == ProcessSample \/ NoPositive \/ Stack

Spec == Init /\ [][Next]_vars

\* ---------------------------------------------------------------- loss calc
\* No batch is being assembled.
AsmIdle ==
    /\ samples = <<>>
    /\ args = [query_token |-> NONE]
    /\ rnd_pos = 0
    /\ InitCall

\* A faulty CalcFrom: the loss is doubled when hard-negative indices are given.
CalcFromWeighingHard(s) ==
    \E lsm \in {log_softmax(IF Cols(q_vectors) > 0 THEN View(s, Rows(q_vectors)) ELSE s)} :
    \E idxs \in ArgMaxes(lsm) :
    \E l \in {nll_loss(lsm, positive_idx_per_question)} :
        /\ (prev_calc.made /\ prev_calc.softmax_scores = lsm) => idxs = prev_calc.max_idxs
        /\ scores' = (IF Cols(q_vectors) > 0 THEN View(s, Rows(q_vectors)) ELSE s)
        /\ softmax_scores' = lsm
        /\ loss' = l
        /\ max_idxs' = idxs
        /\ correct_predictions_count' = CountCorrect(idxs, positive_idx_per_question)
        /\ returned_loss' =
               ScaleLoss(IF hard_negative_idx_per_question.given THEN Mul(l, 2) ELSE l,
                         loss_scale)
        /\ lpc' = "done"

\* Lines 358-378 of BiEncoderNllLoss.calc and 407-427 of BiEncoderEntLoss.calc,
\* from the score matrix on. torch.max is a function of its argument: on the
\* tensor of an earlier call it gives the indices it gave then.
CalcFrom(s) ==
    \E lsm \in {log_softmax(IF Cols(q_vectors) > 0 THEN View(s, Rows(q_vectors)) ELSE s)} :
    \E idxs \in ArgMaxes(lsm) :
    \E l \in {nll_loss(lsm, positive_idx_per_question)} :
        /\ (prev_calc.made /\ prev_calc.softmax_scores = lsm) => idxs = prev_calc.max_idxs
        /\ scores' = (IF Cols(q_vectors) > 0 THEN View(s, Rows(q_vectors)) ELSE s)
        /\ softmax_scores' = lsm
        /\ loss' = l
        /\ max_idxs' = idxs
        /\ correct_predictions_count' = CountCorrect(idxs, positive_idx_per_question)
        /\ returned_loss' = ScaleLoss(l, loss_scale)
        /\ lpc' = "done"

\* BiEncoderNllLoss.calc
NllCalc ==
    /\ lpc = "call"
    /\ loss_class = "BiEncoderNllLoss"
    /\ CalcFrom(NllGetScores(q_vectors, ctx_vectors))
    /\ UNCHANGED <<loss_class, q_vectors, ctx_vectors, q_ent_vectors, ctx_ent_vectors,
                   positive_idx_per_question, hard_negative_idx_per_question, loss_scale,
                   prev_calc>>
    /\ UNCHANGED asm_vars
    /\ UNCHANGED span_vars
    /\ UNCHANGED drl_vars

\* BiEncoderEntLoss.calc
EntCalc ==
    /\ lpc = "call"
    /\ loss_class = "BiEncoderEntLoss"
    /\ CalcFrom(EntGetScores(q_vectors, ctx_vectors, q_ent_vectors, ctx_ent_vectors))
    /\ UNCHANGED <<loss_class, q_vectors, ctx_vectors, q_ent_vectors, ctx_ent_vectors,
                   positive_idx_per_question, hard_negative_idx_per_question, loss_scale,
                   prev_calc>>
    /\ UNCHANGED asm_vars
    /\ UNCHANGED span_vars
    /\ UNCHANGED drl_vars

\* The numbers of queries and of passages of a batch.
QueryCounts == {1, 2}
CtxCounts == {1, 2, 3}

Identity(m) == [j \in 1..m |-> [d \in 1..m |-> IF d = j THEN 1 ELSE 0]]

\* Entity vectors (of width 1) for n queries and m passages.
EntityVectors(n, m) ==
    {<<[i \in 1..n |-> <<a>>], [j \in 1..m |-> <<IF a = 1 THEN j % 2 ELSE 1>>]>> : a \in {0, 1}}

LossScales == {NoScale} \cup {[given |-> TRUE, value |-> v] : v \in {0, MaxScale}}

NoOutputs ==
    /\ lpc = "call"
    /\ scores = <<>>
    /\ softmax_scores = <<>>
    /\ loss = <<>>
    /\ max_idxs = <<>>
    /\ correct_predictions_count = 0
    /\ returned_loss = <<>>
    /\ prev_calc = NoCalc

\* calc on n queries and m passages whose vectors give every score matrix with
\* entries in 0..MaxVal (the passage vectors are the unit vectors).
InitLoss ==
    /\ AsmIdle
    /\ loss_class \in {"BiEncoderNllLoss", "BiEncoderEntLoss"}
    /\ \E n \in QueryCounts, m \in CtxCounts :
        /\ q_vectors \in [1..n -> [1..m -> 0..MaxVal]]
        /\ ctx_vectors = Identity(m)
        /\ \E e \in EntityVectors(n, m) : q_ent_vectors = e[1] /\ ctx_ent_vectors = e[2]
        /\ positive_idx_per_question \in [1..n -> 0..(m - 1)]
        /\ hard_negative_idx_per_question \in
               {NoHardNegatives, [given |-> TRUE, value |-> [i \in 1..n |-> <<m - 1>>]]}
    /\ loss_scale \in LossScales
    /\ NoOutputs
    /\ SpanIdle
    /\ DrlIdle

NextLoss == NllCalc \/ EntCalc

SpecLoss == InitLoss /\ [][NextLoss]_vars

\* A second call of calc, of the same loss class on the same vectors, positive
\* indices and scale, with another hard_negative_idx_per_question.
CalcAgain ==
    /\ lpc = "done"
    /\ ~prev_calc.made
    /\ prev_calc' =
           [made |-> TRUE, hard_negative_idx_per_question |-> hard_negative_idx_per_question,
            softmax_scores |-> softmax_scores, max_idxs |-> max_idxs,
            returned_loss |-> returned_loss,
            correct_predictions_count |-> correct_predictions_count]
    /\ hard_negative_idx_per_question' \in
           HardNegativeArgs(Rows(q_vectors), Rows(ctx_vectors)) \ {hard_negative_idx_per_question}
    /\ lpc' = "call"
    /\ scores' = <<>>
    /\ softmax_scores' = <<>>
    /\ loss' = <<>>
    /\ max_idxs' = <<>>
    /\ correct_predictions_count' = 0
    /\ returned_loss' = <<>>
    /\ UNCHANGED <<loss_class, q_vectors, ctx_vectors, q_ent_vectors, ctx_ent_vectors,
                   positive_idx_per_question, loss_scale>>
    /\ UNCHANGED asm_vars
    /\ UNCHANGED span_vars
    /\ UNCHANGED drl_vars

\* Two calls of calc, with no scale or the scale MaxScale: the first without
\* hard_negative_idx_per_question or with the last passage as every query's
\* hard negative, the second with any other value of the argument.
InitLossTwice ==
    /\ AsmIdle
    /\ loss_class \in {"BiEncoderNllLoss", "BiEncoderEntLoss"}
    /\ \E n \in QueryCounts, m \in CtxCounts :
        /\ q_vectors \in [1..n -> [1..m -> 0..MaxVal]]
        /\ ctx_vectors = Identity(m)
        /\ q_ent_vectors = [i \in 1..n |-> <<1>>]
        /\ ctx_ent_vectors = [j \in 1..m |-> <<j % 2>>]
        /\ positive_idx_per_question \in [1..n -> {0, m - 1}]
        /\ hard_negative_idx_per_question \in
               {NoHardNegatives, [given |-> TRUE, value |-> [i \in 1..n |-> <<m - 1>>]]}
    /\ loss_scale \in {NoScale, [given |-> TRUE, value |-> MaxScale]}
    /\ NoOutputs
    /\ SpanIdle
    /\ DrlIdle

NextLossTwice == NllCalc \/ EntCalc \/ CalcAgain

SpecLossTwice == InitLossTwice /\ [][NextLossTwice]_vars

\* BiEncoderEntLoss.get_scores alone, on vectors of every shape within the bounds.
EntScores ==
    /\ lpc = "call"
    /\ loss_class = "BiEncoderEntLoss"
    /\ scores' = EntGetScores(q_vectors, ctx_vectors, q_ent_vectors, ctx_ent_vectors)
    /\ lpc' = "scored"
    /\ UNCHANGED <<loss_class, q_vectors, ctx_vectors, q_ent_vectors, ctx_ent_vectors,
                   positive_idx_per_question, hard_negative_idx_per_question, loss_scale,
                   softmax_scores, loss, max_idxs, correct_predictions_count, returned_loss,
                   prev_calc>>
    /\ UNCHANGED asm_vars
    /\ UNCHANGED span_vars
    /\ UNCHANGED drl_vars

\* Vectors of width 2 and entity vectors of width 1, with negative entries too.
InitScores ==
    /\ AsmIdle
    /\ loss_class = "BiEncoderEntLoss"
    /\ \E n \in QueryCounts, m \in CtxCounts :
        /\ q_vectors \in [1..n -> [1..2 -> {-1, MaxVal}]]
        /\ ctx_vectors \in [1..m -> [1..2 -> {0, MaxVal}]]
        /\ q_ent_vectors \in [1..n -> [1..1 -> {-1, MaxVal}]]
        /\ ctx_ent_vectors \in [1..m -> [1..1 -> {1, MaxVal + 1}]]
    /\ positive_idx_per_question = <<>>
    /\ hard_negative_idx_per_question = NoHardNegatives
    /\ loss_scale = NoScale
    /\ NoOutputs
    /\ SpanIdle
    /\ DrlIdle

NextScores == EntScores

SpecScores == InitScores /\ [][NextScores]_vars

\* ------------------------------------------------- two calls in succession
\* Samples with one positive each; their queries are short, long or without marker.
TwiceShapeLists ==
    {f \in ShapeLists : Len(f) > 0 /\ \A s \in DOMAIN f : f[s].pos = 1}

InitTwice ==
    /\ \E f \in TwiceShapeLists : \E qs \in [DOMAIN f -> {ShortQuery, LongQuery, PlainQuery}] :
           samples = [s \in DOMAIN f |-> MkSample(s, f[s], qs[s])]
    /\ args \in {a \in Args : /\ ~a.shuffle
                              /\ a.num_hard_negatives \in {0, MaxNum}
                              /\ a.num_other_negatives \in {0, MaxNum}}
    /\ rnd_pos \in 0..MaxRndStart
    /\ InitCall
    /\ LossIdle
    /\ SpanIdle
    /\ DrlIdle

NextTwice == ProcessSample \/ Stack \/ CallAgain

SpecTwice == InitTwice /\ [][NextTwice]_vars

\* ------------------------------------------------- _select_span_with_token
\* Lines 439-470 on one text.
SelectSpan ==
    /\ spc = "call"
    /\ query_span' = select_span_with_token(span_text, span_rnd)
    /\ spc' = IF query_span'.status = "ok" THEN "returned" ELSE "raised"
    /\ UNCHANGED <<max_length, span_text, span_rnd>>
    /\ UNCHANGED asm_vars
    /\ UNCHANGED loss_vars
    /\ UNCHANGED drl_vars

\* Query texts of up to MaxLength + 4 words with the marker at any place or absent.
Texts ==
    {t \in [words : 1..(MaxLength + 4), marker : 0..(MaxLength + 4)] : t.marker <= t.words}

\* Values of rnd.random(), in thousandths: the ends and the middle of [0, 1),
\* steps of an eighth, and the first values of Random(0).
JitterValues == {0, 125, 250, 375, 499, 500, 625, 750, 875, 999} \cup Range(RndSeq)

\* The function on every text, every sequence length up to MaxLength and every
\* jitter value.
InitSpan ==
    /\ AsmIdle
    /\ LossIdle
    /\ max_length \in 1..MaxLength
    /\ span_text \in Texts
    /\ span_rnd \in JitterValues
    /\ query_span = NoSpan
    /\ spc = "call"
    /\ DrlIdle

NextSpan == SelectSpan

SpecSpan == InitSpan /\ [][NextSpan]_vars

\* ------------------------------------------------------------------ drl.py
\* A passage is [title, vector], the vector being what the context encoder
\* gives for it; all_passages pairs it with its id.
Front(seq) == SubSeq(seq, 1, Len(seq) - 1)

\* cache[title].append(x) on a defaultdict(list), src/drl.py line 22.
AppendUnder(cache, title, x) ==
    IF title \in DOMAIN cache
    THEN [cache EXCEPT ![title] = Append(@, x)]
    ELSE [t \in DOMAIN cache \cup {title} |-> IF t = title THEN <<x>> ELSE cache[t]]

\* A faulty create_title_cache: every passage is filed under the title of the
\* first passage.
CacheUnderFirstTitle(passages) ==
    IF passages = <<>> THEN <<>>
    ELSE [t \in {passages[1][2].title} |-> passages]

\* create_title_cache, src/drl.py lines 19-23.
RECURSIVE create_title_cache(_)
create_title_cache(passages) ==
    IF passages = <<>> THEN <<>>
    ELSE AppendUnder(create_title_cache(Front(passages)),
                     passages[Len(passages)][2].title, passages[Len(passages)])

\* find_relevant_passages, src/drl.py lines 26-30: the lists filed under the
\* entities, in the entities' order.
RECURSIVE find_relevant_passages(_, _)
find_relevant_passages(entities, title_cache) ==
    IF entities = <<>> THEN <<>>
    ELSE (IF entities[1] \in DOMAIN title_cache THEN title_cache[entities[1]] ELSE <<>>)
         \o find_relevant_passages(Tail(entities), title_cache)

\* title_cache[ent] enters a key the defaultdict does not hold yet, with an
\* empty list (line 29).
CacheAfterLookups(entities, title_cache) ==
    [t \in DOMAIN title_cache \cup Range(entities) |->
        IF t \in DOMAIN title_cache THEN title_cache[t] ELSE <<>>]

\* gen_ctx_vectors (line 113): an (id, vector) pair for every passage given, in
\* the order given.
gen_ctx_vectors(passages) ==
    [j \in 1..Len(passages) |-> <<passages[j][1], passages[j][2].vector>>]

\* sorted(..., key=lambda x: x[1], reverse=True), line 128: the sort is stable, so
\* a pair goes behind the pairs of the same score that came before it.
InsertByScore(sorted, x) ==
    LET k == Cardinality({j \in DOMAIN sorted : sorted[j][2] >= x[2]})
    IN  SubSeq(sorted, 1, k) \o <<x>> \o SubSeq(sorted, k + 1, Len(sorted))

RECURSIVE SortedByScore(_)
SortedByScore(pairs) ==
    IF pairs = <<>> THEN <<>>
    ELSE InsertByScore(SortedByScore(Front(pairs)), pairs[Len(pairs)])

\* Lines 115-130 for one question: ids and scores of the best n_docs passages.
RankPassages(q_vector, data, docs) ==
    IF Len(data) = 0 THEN <<<<>>, <<>>>>
    ELSE LET ctx_ids == [j \in 1..Len(data) |-> data[j][1]]
             vectors == [j \in 1..Len(data) |-> data[j][2]]
             scores1d == dot_product_scores(<<q_vector>>, vectors)[1]
             sorted == SortedByScore([j \in 1..Len(data) |-> <<ctx_ids[j], scores1d[j]>>])
         IN  <<Take([j \in 1..Len(sorted) |-> sorted[j][1]], docs),
               Take([j \in 1..Len(sorted) |-> sorted[j][2]], docs)>>

\* The positions of the QA samples that have entities, in order (lines 73-79).
RECURSIVE WithEntities(_)
WithEntities(src) ==
    IF src = <<>> THEN <<>>
    ELSE WithEntities(Front(src)) \o
         (IF src[Len(src)].entities # <<>> THEN <<src[Len(src)]>> ELSE <<>>)

\* Lines 73-96: questions without entities are dropped, the others encoded.
FilterQuestions ==
    /\ dpc = "filter"
    /\ question_entities' =
           [i \in 1..Len(WithEntities(qa_src)) |-> WithEntities(qa_src)[i].entities]
    /\ questions_tensor' =
           [i \in 1..Len(WithEntities(qa_src)) |-> WithEntities(qa_src)[i].vector]
    /\ dpc' = "cache"
    /\ UNCHANGED <<qa_src, all_passages, n_docs, passages_by_title, relevant_passages,
                   top_results_and_scores>>
    /\ UNCHANGED <<asm_vars, loss_vars, span_vars>>

\* Lines 98-107.
CreateTitleCache ==
    /\ dpc = "cache"
    /\ passages_by_title' = create_title_cache(all_passages)
    /\ dpc' = IF Len(question_entities) = 0 THEN "done" ELSE "retrieve"
    /\ UNCHANGED <<qa_src, all_passages, n_docs, question_entities, questions_tensor,
                   relevant_passages, top_results_and_scores>>
    /\ UNCHANGED <<asm_vars, loss_vars, span_vars>>

\* Lines 109-130 for the next question.
RetrieveQuestion ==
    /\ dpc = "retrieve"
    /\ LET i == Len(top_results_and_scores) + 1
           relevant == find_relevant_passages(question_entities[i], passages_by_title)
       IN  /\ relevant_passages' = Append(relevant_passages, relevant)
           /\ passages_by_title' = CacheAfterLookups(question_entities[i], passages_by_title)
           /\ top_results_and_scores' =
                  Append(top_results_and_scores,
                         RankPassages(questions_tensor[i], gen_ctx_vectors(relevant), n_docs))
           /\ dpc' = IF i = Len(question_entities) THEN "done" ELSE "retrieve"
    /\ UNCHANGED <<qa_src, all_passages, n_docs, question_entities, questions_tensor>>
    /\ UNCHANGED <<asm_vars, loss_vars, span_vars>>

\* Two titles that passages carry and an entity that is no passage's title.
Titles == {"t1", "t2"}
EntityLists == {<<>>, <<"t1">>, <<"e3">>, <<"t2", "t1">>, <<"t1", "t1">>}

\* Up to MaxPassages passages with ids 11, 12, ...
PassageLists ==
    UNION {[1..k -> [title : Titles, vector : {<<0>>, <<1>>}]] : k \in 0..MaxPassages}

\* Two QA samples whose encoded queries point the same way, n_docs up to MaxNum.
InitDrl ==
    /\ AsmIdle
    /\ LossIdle
    /\ SpanIdle
    /\ \E ps \in PassageLists : all_passages = [j \in DOMAIN ps |-> <<10 + j, ps[j]>>]
    /\ \E q \in {<<-1>>, <<MaxVal>>} : \E es \in [{1, 2} -> EntityLists] :
           qa_src = [i \in {1, 2} |-> [entities |-> es[i], vector |-> q]]
    /\ n_docs \in 0..MaxNum
    /\ question_entities = <<>>
    /\ questions_tensor = <<>>
    /\ passages_by_title = <<>>
    /\ relevant_passages = <<>>
    /\ top_results_and_scores = <<>>
    /\ dpc = "filter"

NextDrl == FilterQuestions \/ CreateTitleCache \/ RetrieveQuestion

SpecDrl == InitDrl /\ [][NextDrl]_vars

\* =================================================================== claims
\* The samples whose passages were appended to the batch lists.
Appended == 1..Len(positive_ctx_indices)

\* The passages sample i contributed: the batch from its positive index up to
\* the positive index of the next sample.
Contributed(i) ==
    SubSeq(ctx_tensors, positive_ctx_indices[i] + 1,
           IF i < Len(positive_ctx_indices) THEN positive_ctx_indices[i + 1]
           ELSE Len(ctx_tensors))

Tensors(ctxs) == [k \in 1..Len(ctxs) |-> CtxTokenIds(ctxs[k], args.insert_title)]

\* C1: the positive index recorded for sample i is the number of passages the
\* samples before it put into the batch (0 for the first), and the batch holds
\* exactly the passages of the samples appended so far.
C1_PositiveIndexIsPrefixCount ==
    /\ \A i \in Appended :
           positive_ctx_indices[i] = SumSeq([j \in 1..(i - 1) |-> Len(locals[j].all_ctxs)])
    /\ Len(ctx_tensors) = SumSeq([j \in 1..Len(locals) |-> Len(locals[j].all_ctxs)])

C1_Witness ==
    /\ pc = "done"
    /\ Len(positive_ctx_indices) = 2
    /\ positive_ctx_indices[1] = 0
    /\ positive_ctx_indices[2] > 1

\* C2: every index recorded in a sample's hard-negative index list is the batch
\* position of a passage of that sample's truncated hard-negative slice.
C2_HardIndicesPointAtHardNegatives ==
    \A i \in Appended : \A k \in Range(hard_neg_ctx_indices[i]) :
        /\ k + 1 \in DOMAIN ctx_tensors
        /\ ctx_tensors[k + 1] \in Range(Tensors(locals[i].hard_neg_ctxs))

\* C3 as stated: a sample contributes its chosen positive, then the first
\* num_other_negatives passages of its other-negative pool, then the first
\* num_hard_negatives passages of its hard-negative pool; the passage at its
\* positive index is its chosen positive.
C3_SliceIsPositiveOtherHard ==
    \A i \in Appended :
        /\ Contributed(i) =
               Tensors(<<locals[i].positive_ctx>>
                       \o Take(samples[i].negative_passages, args.num_other_negatives)
                       \o Take(samples[i].hard_negative_passages, args.num_hard_negatives))
        /\ ctx_tensors[positive_ctx_indices[i] + 1] = Tensors(<<locals[i].positive_ctx>>)[1]
        /\ locals[i].positive_ctx \in Range(samples[i].positive_passages)

\* The pool the hard-negative slice is cut from: the other-negative pool when
\* hard_neg_fallback is set and the sample has no hard negatives.
HardSource(i) ==
    IF args.hard_neg_fallback /\ samples[i].hard_negative_passages = <<>>
    THEN samples[i].negative_passages
    ELSE samples[i].hard_negative_passages

\* C3, amended: as C3, with the hard-negative slice cut from the other-negative
\* pool when hard_neg_fallback is set and the hard-negative pool is empty.
C3_SliceIsPositiveOtherHardOrFallback ==
    \A i \in Appended :
        /\ Contributed(i) =
               Tensors(<<locals[i].positive_ctx>>
                       \o Take(samples[i].negative_passages, args.num_other_negatives)
                       \o Take(HardSource(i), args.num_hard_negatives))
        /\ ctx_tensors[positive_ctx_indices[i] + 1] = Tensors(<<locals[i].positive_ctx>>)[1]
        /\ locals[i].positive_ctx \in Range(samples[i].positive_passages)

C3_Witness ==
    /\ pc = "done"
    /\ \E i \in Appended :
        /\ Len(locals[i].neg_ctxs) > 0
        /\ Len(locals[i].hard_neg_ctxs) > 0
        /\ samples[i].hard_negative_passages # <<>>

\* The part of sample i's contribution that follows its positive and its
\* other-negative slice.
HardSlice(i) ==
    Drop(Contributed(i),
         1 + Min(args.num_other_negatives, Len(samples[i].negative_passages)))

\* C4: with hard_neg_fallback and an empty hard-negative pool, the hard-negative
\* slice of the batch is the first min(num_hard_negatives, len(other_negatives))
\* passages of the (shuffled) other-negative pool.
C4_FallbackSliceFromOtherPool ==
    \A i \in Appended :
        (args.hard_neg_fallback /\ samples[i].hard_negative_passages = <<>>) =>
            /\ Len(HardSlice(i)) =
                   Min(args.num_hard_negatives, Len(samples[i].negative_passages))
            /\ HardSlice(i) = Tensors(Take(samples[i].negative_passages, Len(HardSlice(i))))
            /\ Range(HardSlice(i)) \subseteq Range(Tensors(samples[i].negative_passages))

C4_Witness ==
    /\ pc = "done"
    /\ args.hard_neg_fallback
    /\ args.shuffle
    /\ \E i \in Appended :
        /\ samples[i].hard_negative_passages = <<>>
        /\ Len(samples[i].negative_passages) > args.num_hard_negatives
        /\ Len(HardSlice(i)) > 0
        /\ samples[i] # samples0[i]

\* What two successive calls gathered and returned is the same.
SameQueries ==
    /\ prev.question_tensors = question_tensors
    /\ prev.question_entity_tensors = question_entity_tensors
    /\ prev.question_entity_position_ids = question_entity_position_ids

SamePassages ==
    /\ prev.ctx_tensors = ctx_tensors
    /\ prev.ctx_entity_tensors = ctx_entity_tensors
    /\ prev.ctxs_entity_position_ids = ctxs_entity_position_ids
    /\ prev.positive_ctx_indices = positive_ctx_indices
    /\ prev.hard_neg_ctx_indices = hard_neg_ctx_indices

SecondCallOver == call = 2 /\ pc # "loop"

C6_NoShuffleIsDeterministic ==
    ~args.shuffle =>
        /\ random_calls = 0
        /\ samples = samples0
        /\ \A i \in DOMAIN locals :
            /\ locals[i].positive_ctx = samples0[i].positive_passages[1]
            /\ locals[i].neg_ctxs =
                   Take(samples0[i].negative_passages, args.num_other_negatives)
            /\ locals[i].hard_neg_ctxs =
                   Take(IF args.hard_neg_fallback /\ samples0[i].hard_negative_passages = <<>>
                        THEN samples0[i].negative_passages
                        ELSE samples0[i].hard_negative_passages,
                        args.num_hard_negatives)
            /\ Contributed(i) = Tensors(<<locals[i].positive_ctx>> \o locals[i].neg_ctxs
                                        \o locals[i].hard_neg_ctxs)

C6_Witness ==
    /\ pc = "done"
    /\ ~args.shuffle
    /\ args.shuffle_positives
    /\ \E i \in DOMAIN locals :
        /\ Len(samples0[i].positive_passages) > 1
        /\ Len(locals[i].neg_ctxs) > 0
        /\ Len(locals[i].hard_neg_ctxs) > 0

\* ------------------------------------------------------------------- loss
Dot(u, v) == SumSeq([d \in 1..Len(u) |-> u[d] * v[d]])

RECURSIVE PolyProduct(_)
PolyProduct(ps) == IF ps = <<>> THEN <<1>> ELSE PolyMul(ps[1], PolyProduct(Tail(ps)))

\* The mean over the queries i of -log_softmax(scores)[i, positive_idx[i]], the
\* softmax of row i running over all passages: -(s[i][t_i] - log sum_j e^s[i][j])
\* is (min_i - s[i][t_i]) + log sum_j e^(s[i][j] - min_i), and the sum of logs is
\* the log of the product.
MeanNll(s, target) ==
    [k |-> SumSeq([i \in 1..Len(target) |-> SetMin(Range(s[i])) - s[i][target[i] + 1]]),
     q |-> PolyProduct([i \in 1..Len(target) |-> ExpSum(s[i])]),
     n |-> Len(target)]

\* C7: the loss of calc is the mean over the queries of the negative
\* log-softmax (over all passages of the batch) at the positive index; it is
\* what calc returns when no scale factor is supplied.
C7_LossIsMeanNll ==
    lpc = "done" =>
        /\ loss = MeanNll(scores, positive_idx_per_question)
        /\ ~loss_scale.given => returned_loss = MeanNll(scores, positive_idx_per_question)

\* Scores ((1,0,0),(0,0,1)) with positives (0,2): each row's term is
\* -1 + log(2 + e), so twice the mean is -2 + log(4 + 4e + e^2).
C7_Witness ==
    /\ lpc = "done"
    /\ loss_class = "BiEncoderNllLoss"
    /\ scores = <<<<1, 0, 0>>, <<0, 0, 1>>>>
    /\ positive_idx_per_question = <<0, 2>>
    /\ ~loss_scale.given
    /\ returned_loss = [k |-> -2, q |-> <<4, 4, 1>>, n |-> 2]
    /\ correct_predictions_count = 2

RowMax(row) == SetMax(Range(row))

\* C8: the count is the number of queries whose arg-max passage (max_idxs, an
\* index of a largest score of the query's row) is the passage at the positive
\* index: every query whose positive alone has the largest score counts, no
\* query whose positive has not the largest score does, and the count lies
\* between 0 and the number of queries.
C8_CountIsArgMaxHits ==
    lpc = "done" =>
        /\ \A i \in 1..Rows(scores) :
            /\ max_idxs[i] \in 0..(Cols(scores) - 1)
            /\ scores[i][max_idxs[i] + 1] = RowMax(scores[i])
        /\ correct_predictions_count =
               Cardinality({i \in 1..Rows(scores) : max_idxs[i] = positive_idx_per_question[i]})
        /\ correct_predictions_count >=
               Cardinality({i \in 1..Rows(scores) :
                   \A j \in 1..Cols(scores) :
                       j # positive_idx_per_question[i] + 1 =>
                           scores[i][j] < scores[i][positive_idx_per_question[i] + 1]})
        /\ correct_predictions_count <=
               Cardinality({i \in 1..Rows(scores) :
                   scores[i][positive_idx_per_question[i] + 1] = RowMax(scores[i])})
        /\ correct_predictions_count \in 0..Rows(scores)

C8_Witness ==
    /\ lpc = "done"
    /\ loss_class = "BiEncoderEntLoss"
    /\ Rows(scores) = 2
    /\ scores[1] = <<2, 0, 1>>
    /\ scores[2] = <<1, 0, 2>>
    /\ positive_idx_per_question = <<0, 1>>
    /\ correct_predictions_count = 1

\* C9: with a scale factor supplied, 0 included, the returned loss is the
\* unscaled loss times the factor; with none it is the unscaled loss.
C9_ReturnedLossIsScaled ==
    lpc = "done" =>
        returned_loss = IF loss_scale.given THEN Mul(loss, loss_scale.value) ELSE loss

\* C10: the entity-augmented score of query i and passage j is
\* dot(query_i, passage_j) + dot(query_entity_i, passage_entity_j), and the two
\* dot-product matrices have n_queries rows and n_passages columns.
C10_EntScoresAreSumOfDots ==
    lpc = "scored" =>
        /\ Rows(scores) = Rows(q_vectors)
        /\ \A i \in 1..Rows(q_vectors) :
            /\ Len(scores[i]) = Rows(ctx_vectors)
            /\ \A j \in 1..Rows(ctx_vectors) :
                   scores[i][j] = Dot(q_vectors[i], ctx_vectors[j])
                                  + Dot(q_ent_vectors[i], ctx_ent_vectors[j])
        /\ \A M \in {dot_product_scores(q_vectors, ctx_vectors),
                     dot_product_scores(q_ent_vectors, ctx_ent_vectors)} :
               Rows(M) = Rows(q_vectors) /\ \A i \in 1..Rows(M) : Len(M[i]) = Rows(ctx_vectors)

C10_Witness ==
    /\ lpc = "scored"
    /\ Rows(q_vectors) = 2
    /\ Rows(ctx_vectors) = 3
    /\ q_vectors[1] # q_vectors[2]
    /\ scores[1][1] # scores[2][1]
    /\ scores[1][3] # Dot(q_vectors[1], ctx_vectors[3])

\* ---------------------------------------------------------- span selection
\* The call of _select_span_with_token is over.
SpanOver == spc \in {"returned", "raised"}

MarkerInTruncated == start_ent_id \in Range(text_to_tensor(NONE, span_text, TRUE))
MarkerInFull == start_ent_id \in Range(text_to_tensor(NONE, span_text, FALSE))

\* The case of lines 444-466: the marker is cut off by the truncation to
\* max_length but the text holds it.
Rewindows == ~MarkerInTruncated /\ MarkerInFull

WithoutPositive == {i \in DOMAIN samples : samples[i].positive_passages = <<>>}

FirstWithoutPositive == SetMin(WithoutPositive)

\* C12: if a sample has no positive passage the call returns no batch: the loop
\* does not get past the first such sample, where the call raises (a ValueError
\* on the random-positive path, an IndexError on the first-element path).
C12_NoPositiveAborts ==
    WithoutPositive # {} =>
        /\ pc # "done"
        /\ batch = NoBatch
        /\ idx < FirstWithoutPositive
        /\ pc # "loop" =>
            /\ idx = FirstWithoutPositive - 1
            /\ pc = (IF args.shuffle /\ args.shuffle_positives
                     THEN "ValueError" ELSE "IndexError")

C12_Witness ==
    /\ pc = "ValueError"
    /\ args.shuffle /\ args.shuffle_positives
    /\ Len(samples) = 2
    /\ idx = 1
    /\ samples[2].positive_passages = <<>>
    /\ Len(ctx_tensors) > 1
    /\ batch = NoBatch

\* C13: on a text whose full, untruncated tensor does not hold the marker,
\* _select_span_with_token raises the RuntimeError of line 468, whose message
\* carries the text; it returns no tensor and makes no re-windowing attempt (rnd
\* is not drawn from).
C13_MissingMarkerIsFatal ==
    (SpanOver /\ ~MarkerInFull) =>
        /\ spc = "raised"
        /\ query_span.status = "RuntimeError"
        /\ query_span.tensor = <<>>
        /\ Len(query_span.message) = 2
        /\ query_span.message[2] = span_text
        /\ query_span.drew = 0

C13_Witness ==
    /\ spc = "raised"
    /\ ~MarkerInFull
    /\ span_text.words > max_length
    /\ max_length = MaxLength
    /\ query_span.status = "RuntimeError"
    /\ query_span.message[2] = span_text

\* -------------------------------------------------------------- the slices
\* Sample i's hard-negative slice was filled by the fallback of lines 237-238.
FallbackTaken(i) == args.hard_neg_fallback /\ samples[i].hard_negative_passages = <<>>

\* C14: when the fallback fills a sample's hard-negative slice, no passage is
\* both in the sample's other-negative slice and in its hard-negative slice.
C14_FallbackNotDoubleDrawn ==
    \A i \in DOMAIN locals :
        FallbackTaken(i) =>
            Range(locals[i].neg_ctxs) \cap Range(locals[i].hard_neg_ctxs) = {}

\* C15: a sample's other-negative slice has min(num_other_negatives, size of its
\* other-negative pool) passages, its hard-negative slice at most
\* num_hard_negatives, filled by the fallback or not, and the sample puts at
\* most 1 + num_other_negatives + num_hard_negatives passages into the batch.
C15_SliceLengths ==
    \A i \in DOMAIN locals :
        /\ Len(locals[i].neg_ctxs) =
               Min(args.num_other_negatives, Len(samples[i].negative_passages))
        /\ Len(locals[i].hard_neg_ctxs) <= args.num_hard_negatives
        /\ Len(locals[i].hard_neg_ctxs) =
               Min(args.num_hard_negatives, Len(HardSource(i)))
        /\ Len(Contributed(i)) = 1 + Len(locals[i].neg_ctxs) + Len(locals[i].hard_neg_ctxs)
        /\ Len(Contributed(i)) <= 1 + args.num_other_negatives + args.num_hard_negatives

C15_Witness ==
    /\ pc = "done"
    /\ \E i \in DOMAIN locals :
        /\ FallbackTaken(i)
        /\ Len(samples[i].negative_passages) > args.num_hard_negatives
        /\ Len(samples[i].negative_passages) > args.num_other_negatives
        /\ Len(locals[i].hard_neg_ctxs) = args.num_hard_negatives
        /\ Len(locals[i].neg_ctxs) = args.num_other_negatives
        /\ Len(Contributed(i)) = 3

SecondCalcOver == prev_calc.made /\ lpc = "done"

\* C17: two calls of calc that differ only in hard_negative_idx_per_question, None
\* included, return the same loss and the same correct-prediction count.
C17_HardIndicesUnused ==
    SecondCalcOver =>
        /\ hard_negative_idx_per_question # prev_calc.hard_negative_idx_per_question
        /\ returned_loss = prev_calc.returned_loss
        /\ correct_predictions_count = prev_calc.correct_predictions_count

C17_Witness ==
    /\ SecondCalcOver
    /\ loss_class = "BiEncoderEntLoss"
    /\ ~prev_calc.hard_negative_idx_per_question.given
    /\ hard_negative_idx_per_question.given
    /\ hard_negative_idx_per_question.value = <<<<2>>, <<2>>>>
    /\ positive_idx_per_question = <<0, 2>>
    /\ loss_scale.given
    /\ correct_predictions_count = 1
    /\ returned_loss = prev_calc.returned_loss

\* -------------------------------------------------------------- the queries
\* C18: a sample's query is encoded in one of three modes: with a query_token
\* that is not null and not the marker, the token joined before the query text
\* is tensorized; with the marker, the span-selection procedure gives the
\* tensor; the raw query text is tensorized only when query_token is null.
C18_ThreeQueryModes ==
    \A i \in DOMAIN question_tensors :
        /\ (args.query_token # NONE /\ args.query_token # START_ENT) =>
               locals[i].called = [callee |-> "text_to_tensor", joined |-> args.query_token,
                                   text |-> samples[i].query]
        /\ args.query_token = START_ENT =>
               /\ locals[i].called.callee = "_select_span_with_token"
               /\ locals[i].called.text = samples[i].query
        /\ locals[i].called = [callee |-> "text_to_tensor", joined |-> NONE,
                               text |-> samples[i].query]
               => args.query_token = NONE

\* C19: once every sample is processed, in every query mode, the three query
\* lists hold one tensor per sample each, and the stacked query token,
\* entity-id and entity-position tensors of a returned batch have as many rows.
C19_OneQueryTensorPerSample ==
    idx = Len(samples) =>
        /\ Len(question_tensors) = Len(samples)
        /\ Len(question_entity_tensors) = Len(samples)
        /\ Len(question_entity_position_ids) = Len(samples)
        /\ pc = "done" =>
            /\ Len(batch.question_ids) = Len(samples)
            /\ Len(batch.question_entity_ids) = Len(samples)
            /\ Len(batch.question_entity_position_ids) = Len(samples)

\* ------------------------------------------------------ hard-negative indices
\* The positive index of the sample after sample i, the batch's length for the last.
NextPositive(i) ==
    IF i < Len(positive_ctx_indices) THEN positive_ctx_indices[i + 1] ELSE Len(ctx_tensors)

\* C20: every hard-negative index recorded for a sample lies after the sample's
\* positive index and before the next sample's positive index, so inside the
\* sample's own passages and below the number of passages in the batch; the
\* indices of a sample are consecutive, hence distinct, and as many as the
\* sample's hard-negative slice has passages.
C20_HardIndicesInsideOwnSlice ==
    \A i \in Appended :
        /\ \A k \in DOMAIN hard_neg_ctx_indices[i] :
            /\ hard_neg_ctx_indices[i][k] > positive_ctx_indices[i]
            /\ hard_neg_ctx_indices[i][k] < NextPositive(i)
            /\ hard_neg_ctx_indices[i][k] < Len(ctx_tensors)
        /\ \A k \in 1..(Len(hard_neg_ctx_indices[i]) - 1) :
               hard_neg_ctx_indices[i][k + 1] = hard_neg_ctx_indices[i][k] + 1
        /\ Cardinality(Range(hard_neg_ctx_indices[i])) = Len(hard_neg_ctx_indices[i])
        /\ Len(hard_neg_ctx_indices[i]) = Len(locals[i].hard_neg_ctxs)
        /\ Len(hard_neg_ctx_indices[i]) = Len(HardSlice(i))

C20_Witness ==
    /\ pc = "done"
    /\ \E i \in Appended :
        /\ Len(hard_neg_ctx_indices[i]) = 2
        /\ hard_neg_ctx_indices[i][2] = NextPositive(i) - 1
        /\ samples[i].hard_negative_passages # <<>>

\* ------------------------------------------------------------------ the pools
\* The lists a and b hold the same passages, each as often.
IsPermutation(a, b) ==
    /\ Len(a) = Len(b)
    /\ \A p \in Range(a) \cup Range(b) :
           Cardinality({k \in DOMAIN a : a[k] = p}) = Cardinality({k \in DOMAIN b : b[k] = p})

\* C21: no pool of a sample gains or loses a passage (the slices and the
\* fallback are lists of their own); without shuffle every pool keeps its
\* order, and with shuffle the positive pool keeps it while the other-negative
\* and hard-negative pools are at most permuted.
C21_PoolsOnlyPermuted ==
    /\ Len(samples) = Len(samples0)
    /\ \A i \in DOMAIN samples :
        /\ samples[i].positive_passages = samples0[i].positive_passages
        /\ samples[i].query = samples0[i].query
        /\ IsPermutation(samples[i].negative_passages, samples0[i].negative_passages)
        /\ IsPermutation(samples[i].hard_negative_passages,
                         samples0[i].hard_negative_passages)
        /\ i > Len(locals) => samples[i] = samples0[i]
    /\ ~args.shuffle => samples = samples0

C21_Witness ==
    /\ pc = "done"
    /\ args.shuffle
    /\ \E i \in DOMAIN locals :
        /\ FallbackTaken(i)
        /\ Len(samples0[i].negative_passages) = 2
        /\ samples[i].negative_passages # samples0[i].negative_passages
        /\ Len(locals[i].neg_ctxs) = 1
        /\ Len(locals[i].hard_neg_ctxs) = 1
        /\ samples[i].hard_negative_passages = <<>>

\* ------------------------------------------------------------------ drl.py
\* The passage of the context source that has the id.
PassageOf(id) == (CHOOSE p \in Range(all_passages) : p[1] = id)[2]

\* How many passages a question's entities match, an entity named twice
\* counting twice.
Matches(entities) ==
    SumSeq([e \in 1..Len(entities) |->
        Cardinality({j \in DOMAIN all_passages : all_passages[j][2].title = entities[e]})])

\* C22: every passage id returned for a question is the id of a passage whose
\* title is one of the question's entities; the scores are the dot products of
\* the question's and the passages' vectors and do not increase along the
\* list; ids and scores are equally many, at most n_docs; a question that no
\* passage matches gets the empty result; and create_title_cache files every
\* passage once, under its own title and under no other key.
C22_EntityRestrictedRetrieval ==
    /\ \A i \in DOMAIN top_results_and_scores :
        LET ids == top_results_and_scores[i][1]
            scrs == top_results_and_scores[i][2]
        IN  /\ \A k \in DOMAIN ids :
                /\ \E p \in Range(all_passages) : p[1] = ids[k]
                /\ PassageOf(ids[k]).title \in Range(question_entities[i])
                /\ scrs[k] = Dot(questions_tensor[i], PassageOf(ids[k]).vector)
            /\ \A k \in 1..(Len(scrs) - 1) : scrs[k] >= scrs[k + 1]
            /\ Len(ids) = Len(scrs)
            /\ Len(ids) <= n_docs
            /\ Len(ids) = Min(n_docs, Matches(question_entities[i]))
            /\ Matches(question_entities[i]) = 0 =>
                   top_results_and_scores[i] = <<<<>>, <<>>>>
    /\ dpc \in {"retrieve", "done"} =>
        \A j \in DOMAIN all_passages :
            /\ all_passages[j][2].title \in DOMAIN passages_by_title
            /\ \A t \in DOMAIN passages_by_title :
                   Cardinality({k \in DOMAIN passages_by_title[t] :
                                   passages_by_title[t][k] = all_passages[j]})
                   = (IF t = all_passages[j][2].title THEN 1 ELSE 0)
    /\ dpc = "done" => Len(top_results_and_scores) = Len(question_entities)

C22_Witness ==
    /\ dpc = "done"
    /\ n_docs = 2
    /\ Len(top_results_and_scores) = 2
    /\ question_entities[1] = <<"t2", "t1">>
    /\ question_entities[2] = <<"e3">>
    /\ Len(relevant_passages[1]) = 3
    /\ top_results_and_scores[1] = <<<<12, 11>>, <<1, 1>>>>
    /\ top_results_and_scores[2] = <<<<>>, <<>>>>
    /\ all_passages[1][2].title = "t1"

====
